---------------------------- MODULE Spec2Model ----------------------------
(***************************************************************************)
(* A model of peertalk-rs: the usbmux packet codec (src/src/protocol.rs),  *)
(* the plist message decoders (src/src/protocol.rs), the device listener   *)
(* of src/src/lib.rs, and the polling listener / device connector that the *)
(* examples call (next_event, connect_to_device).                          *)
(*                                                                         *)
(* u32 values are kept at their width.  TLC's integers stop at 2^31 - 1,   *)
(* so a u32 is a pair of 16-bit halves [hi, lo]; arithmetic on it is       *)
(* carried out half by half, modulo 2^32.                                  *)
(***************************************************************************)
EXTENDS Integers, Sequences, FiniteSets, TLC

VARIABLES
    \* ---- packet codec (protocol.rs) ----
    cpc,              \* position of the codec harness: "idle" | "made" | "written" | "read"
    packet,           \* the Packet in hand (Packet::new), or NoPacket
    stream,           \* the bytes of the reader / writer (a Cursor over a Vec<u8>)
    pos,              \* the Cursor's position in stream
    result,           \* the outcome of the last Packet::from_reader, or NoResult
    overflow_checks,  \* build profile: TRUE = overflow checks on (debug), FALSE = wrapping (release)
    \* ---- the transport to the usbmux service (a TcpStream) ----
    sock_in,          \* bytes the service has sent and the client has not read yet
    sock_out,         \* bytes the client has written
    peer_closed,      \* the service has closed the connection (reads reach end of stream)
    frames_sent,      \* how many frames the service has sent
    \* ---- DeviceListener of lib.rs ----
    lpc,              \* position in DeviceListener::new: "new" | "await_result" | "loop" | "panicked"
    listen_result,    \* `res` of start_listen, the decoded reply to Listen, or NoResult
    printed,          \* what the loop of start_listen has printed, in order
    lib_panic,        \* where and why DeviceListener::new panicked, or NoPanic
    \* ---- the polling listener the examples use (next_event) ----
    in_flight,        \* bytes of a frame the service has sent that have not arrived yet
    wire_events,      \* the device events of the frames the service has sent, in wire order
    npc,              \* position in next_event: "idle" (not in a call) | "drain"
    attempts,         \* read attempts made by the current / last next_event call
    buf,              \* bytes read from the transport and not parsed yet
    events,           \* the FIFO queue of decoded events
    last_event,       \* what the last next_event call returned: None or Some(event)
    delivered,        \* every event next_event has returned, in order
    carry_tail,       \* buffering strategy: TRUE = an unfinished frame is kept for the next call
    tail_lost,        \* a next_event call has thrown away the bytes of an unfinished frame
    \* ---- the device connector the examples use (connect_to_device) ----
    kpc,              \* position in connect: "off" | "call" | "await_result" | "returned" |
                      \* "failed" | "panicked"
    connect_args,     \* the (device_id, port) of the call, or NoArgs
    transport,        \* the connector's own transport: "none" | "open" | "closed"
    blocking,         \* the transport is in blocking mode
    wire_replies,     \* per frame the service has sent: the code of its ResultMessage, if it is one
    connect_result,   \* what connect returned: NoResult, Ok (the tunnel) or Err
    \* ---- the target of the build ----
    big_endian,       \* TRUE = the target is big-endian, FALSE = little-endian
    \* ---- one call of a decoder or constructor of protocol.rs ----
    fpc,              \* "off" | "called" | "done"
    input,            \* the function called and its argument, or NoInput
    outcome,          \* what the call returned, or NoResult
    \* ---- a stream of packets: written one after the other, then read ----
    spc,              \* "off" | "writing" | "reading"
    wrote,            \* the packets written to stream by write_into, in order
    got               \* the outcomes of the from_reader calls on stream, in order

codecVars == <<cpc, packet, stream, pos, result>>
sockVars == <<sock_in, sock_out, peer_closed, frames_sent>>
libVars == <<lpc, listen_result, printed, lib_panic>>
pollVars == <<in_flight, wire_events, npc, attempts, buf, events, last_event, delivered,
              carry_tail, tail_lost>>
connVars == <<kpc, connect_args, transport, blocking, wire_replies, connect_result>>
fnVars == <<fpc, input, outcome>>
streamVars == <<spc, wrote, got>>
vars == <<cpc, packet, stream, pos, result, overflow_checks,
          sock_in, sock_out, peer_closed, frames_sent,
          lpc, listen_result, printed, lib_panic,
          in_flight, wire_events, npc, attempts, buf, events, last_event, delivered,
          carry_tail, tail_lost,
          kpc, connect_args, transport, blocking, wire_replies, connect_result,
          big_endian, fpc, input, outcome, spc, wrote, got>>

(***************************************************************************)
(* Bounds of the model.                                                    *)
(***************************************************************************)
\* longest payload of a packet the harness builds or injects
MaxPayload == 2
\* most frames the service sends on one connection
MaxFrames == 3
\* most frames the service sends to a polling listener
MaxPollFrames == 2
\* most frames the service sends to a connector
MaxConnFrames == 2
\* most packets written to one stream
MaxStreamPackets == 3

(***************************************************************************)
(* u32 arithmetic.                                                         *)
(***************************************************************************)
Half == 256 * 256

U32(h, l) == [hi |-> h, lo |-> l]

\* a natural number below 2^31 as a u32 (`as u32`)
U32FromNat(n) == U32(n \div Half, n % Half)

U32Max == U32(Half - 1, Half - 1)

U32Less(a, b) == a.hi < b.hi \/ (a.hi = b.hi /\ a.lo < b.lo)

\* a + b modulo 2^32
U32WrappingAdd(a, b) ==
    LET l == a.lo + b.lo
        h == a.hi + b.hi + (l \div Half)
    IN  U32(h % Half, l % Half)

\* TRUE iff a + b does not fit in 32 bits
U32AddOverflows(a, b) ==
    LET l == a.lo + b.lo
    IN  a.hi + b.hi + (l \div Half) >= Half

\* a - b modulo 2^32
U32WrappingSub(a, b) ==
    LET borrow == IF a.lo < b.lo THEN 1 ELSE 0
        l == a.lo - b.lo + borrow * Half
        h == a.hi - b.hi - borrow
    IN  U32((h + Half) % Half, l)

\* byteorder::WriteBytesExt::write_u32::<LittleEndian>
WriteU32LE(v) == <<v.lo % 256, v.lo \div 256, v.hi % 256, v.hi \div 256>>

\* a read that takes the four bytes most significant first
ReadU32BE(b) == U32(b[2] + 256 * b[1], b[4] + 256 * b[3])

\* byteorder::ReadBytesExt::read_u32::<LittleEndian> on four bytes
ReadU32LE(b) == U32(b[3] + 256 * b[4], b[1] + 256 * b[2])

(***************************************************************************)
(* protocol.rs: enumerations.                                              *)
(***************************************************************************)
BASE_PACKET_SIZE == U32FromNat(4 * 4)

PacketTypes == {"Result", "Connect", "Listen", "DeviceAdd", "DeviceRemove", "PlistPayload"}
Protocols == {"Binary", "Plist"}

\* impl Into<u32> for PacketType
PacketTypeIntoU32(t) ==
    CASE t = "Result"       -> U32FromNat(1)
      [] t = "Connect"      -> U32FromNat(2)
      [] t = "Listen"       -> U32FromNat(3)
      [] t = "DeviceAdd"    -> U32FromNat(4)
      [] t = "DeviceRemove" -> U32FromNat(5)
      [] t = "PlistPayload" -> U32FromNat(8)

\* Protocol numbered the other way round; not what the code does.
ProtocolIntoU32Swapped(p) ==
    CASE p = "Binary" -> U32FromNat(1)
      [] p = "Plist"  -> U32FromNat(0)

\* impl Into<u32> for Protocol
ProtocolIntoU32(p) ==
    CASE p = "Binary" -> U32FromNat(0)
      [] p = "Plist"  -> U32FromNat(1)

\* ProtocolError values; code is the raw u32 of InvalidPacketType / InvalidProtocol /
\* InvalidReplyCode, key the &'static str of InvalidPlistEntryForKey, text the String
\* of InvalidMessageType.
NoCode == U32FromNat(0)
ProtocolError(name, code, key, text) ==
    [e |-> name, code |-> code, key |-> key, text |-> text]
InvalidPacketType(c) == ProtocolError("InvalidPacketType", c, "", "")
InvalidProtocol(c) == ProtocolError("InvalidProtocol", c, "", "")
InvalidMessageType(s) == ProtocolError("InvalidMessageType", NoCode, "", s)
InvalidPlistEntry == ProtocolError("InvalidPlistEntry", NoCode, "", "")
InvalidPlistEntryForKey(k) == ProtocolError("InvalidPlistEntryForKey", NoCode, k, "")
IoError(kind) == ProtocolError("IoError", NoCode, "", kind)

\* a conversion that looks at the low 16 bits of the value only
PacketTypeTryFromLow16(value) ==
    CASE value.lo = 1 -> [ok |-> TRUE, val |-> "Result"]
      [] value.lo = 2 -> [ok |-> TRUE, val |-> "Connect"]
      [] value.lo = 3 -> [ok |-> TRUE, val |-> "Listen"]
      [] value.lo = 4 -> [ok |-> TRUE, val |-> "DeviceAdd"]
      [] value.lo = 5 -> [ok |-> TRUE, val |-> "DeviceRemove"]
      [] value.lo = 8 -> [ok |-> TRUE, val |-> "PlistPayload"]
      [] OTHER        -> [ok |-> FALSE, err |-> InvalidPacketType(value)]

\* impl TryFrom<u32> for PacketType
PacketTypeTryFrom(value) ==
    IF value.hi # 0 THEN [ok |-> FALSE, err |-> InvalidPacketType(value)]
    ELSE CASE value.lo = 1 -> [ok |-> TRUE, val |-> "Result"]
           [] value.lo = 2 -> [ok |-> TRUE, val |-> "Connect"]
           [] value.lo = 3 -> [ok |-> TRUE, val |-> "Listen"]
           [] value.lo = 4 -> [ok |-> TRUE, val |-> "DeviceAdd"]
           [] value.lo = 5 -> [ok |-> TRUE, val |-> "DeviceRemove"]
           [] value.lo = 8 -> [ok |-> TRUE, val |-> "PlistPayload"]
           [] OTHER        -> [ok |-> FALSE, err |-> InvalidPacketType(value)]

\* Every known protocol word taken for Plist; not what the code does.
ProtocolTryFromAllPlist(value) ==
    IF value.hi # 0 \/ value.lo > 1 THEN [ok |-> FALSE, err |-> InvalidProtocol(value)]
    ELSE [ok |-> TRUE, val |-> "Plist"]

\* impl TryFrom<u32> for Protocol
ProtocolTryFrom(value) ==
    IF value.hi # 0 THEN [ok |-> FALSE, err |-> InvalidProtocol(value)]
    ELSE CASE value.lo = 0 -> [ok |-> TRUE, val |-> "Binary"]
           [] value.lo = 1 -> [ok |-> TRUE, val |-> "Plist"]
           [] OTHER        -> [ok |-> FALSE, err |-> InvalidProtocol(value)]

(***************************************************************************)
(* protocol.rs: Packet.                                                    *)
(***************************************************************************)
NoPacket == [none |-> TRUE]

\* Outcomes of an operation that may return a value, return an error or panic.
Returned(p) == [res |-> "Ok", packet |-> p]
Failed(e) == [res |-> "Err", err |-> e]
Panicked(msg) == [res |-> "Panic", msg |-> msg]

\* A usize on a 64-bit target: top is the value's bits 32 and up, [hi, lo] its low
\* 32 bits.
Usize(top, hi, lo) == [top |-> top, hi |-> hi, lo |-> lo]
UsizeFromNat(n) == Usize(0, n \div Half, n % Half)

\* `x as u32` of a usize: the low 32 bits
UsizeAsU32(x) == U32(x.hi, x.lo)

\* usize <, for a right-hand side that fits 32 bits
UsizeLessU32(x, b) == x.top = 0 /\ U32Less(UsizeAsU32(x), b)

\* Packet::new on a payload of payload_len bytes.  The assertion rejects
\* payload.len() >= u32::MAX; the sum BASE_PACKET_SIZE + len is a u32 addition,
\* which panics on overflow when the build checks overflow and wraps otherwise.
PacketNewOfLen(protocol, packet_type, tag, payload, payload_len, checks) ==
    LET len == UsizeAsU32(payload_len)
    IN  IF ~UsizeLessU32(payload_len, U32Max) THEN Panicked("Payload too large")
        ELSE IF checks /\ U32AddOverflows(BASE_PACKET_SIZE, len)
             THEN Panicked("attempt to add with overflow")
        ELSE Returned([size |-> U32WrappingAdd(BASE_PACKET_SIZE, len),
                       protocol |-> protocol,
                       packet_type |-> packet_type,
                       tag |-> tag,
                       data |-> payload])

\* Packet::new on a payload held in memory
PacketNew(protocol, packet_type, tag, payload, checks) ==
    PacketNewOfLen(protocol, packet_type, tag, payload, UsizeFromNat(Len(payload)), checks)

\* Packet::write_into on a writer that accepts every byte: the bytes written.
WriteInto(p) ==
    WriteU32LE(p.size) \o WriteU32LE(ProtocolIntoU32(p.protocol))
        \o WriteU32LE(PacketTypeIntoU32(p.packet_type)) \o WriteU32LE(p.tag) \o p.data

\* Packet::write_into on a writer whose fail_at-th write returns an error (0: no
\* write does).  The five writes are the four header words and the payload; each
\* result is unwrapped, so the failing write panics.  written is what the writer
\* has taken by then.
WriteIntoFailingAt(p, fail_at) ==
    LET parts == <<WriteU32LE(p.size), WriteU32LE(ProtocolIntoU32(p.protocol)),
                   WriteU32LE(PacketTypeIntoU32(p.packet_type)), WriteU32LE(p.tag),
                   p.data>>
        Upto[n \in 0..5] == IF n = 0 THEN <<>> ELSE Upto[n - 1] \o parts[n]
    IN  IF fail_at = 0 THEN [res |-> "Ok", written |-> Upto[5]]
        ELSE Panicked("unwrap on Err") @@ [written |-> Upto[fail_at - 1]]

Drop(s, n) == SubSeq(s, n + 1, Len(s))

\* Everything taken, whatever the count; not what the code does.
TakeAll(s, n) == s
Take(s, n) == SubSeq(s, 1, n)

\* Packet::from_reader on a reader holding the bytes r and then the end of the
\* stream.  The record says what the call did: res/err/packet its outcome, rest
\* the bytes it left unread, wanted the payload_size it computed (when it got that
\* far) and wrapped whether that subtraction wrapped around.
FromReader(r, checks) ==
    LET none == [computed |-> FALSE, wanted |-> NoCode, wrapped |-> FALSE]
        eof == Failed(IoError("UnexpectedEof")) @@ none @@ [rest |-> <<>>]
    IN
    IF Len(r) < 4 THEN eof
    ELSE LET size == ReadU32LE(Take(r, 4)) IN
    IF Len(r) < 8 THEN eof
    ELSE LET protocol == ProtocolTryFrom(ReadU32LE(SubSeq(r, 5, 8))) IN
    IF ~protocol.ok THEN Failed(protocol.err) @@ none @@ [rest |-> Drop(r, 8)]
    ELSE IF Len(r) < 12 THEN eof
    ELSE LET packet_type == PacketTypeTryFrom(ReadU32LE(SubSeq(r, 9, 12))) IN
    IF ~packet_type.ok THEN Failed(packet_type.err) @@ none @@ [rest |-> Drop(r, 12)]
    ELSE IF Len(r) < 16 THEN eof
    ELSE LET tag == ReadU32LE(SubSeq(r, 13, 16))
             underflow == U32Less(size, BASE_PACKET_SIZE)
             payload_size == U32WrappingSub(size, BASE_PACKET_SIZE)
             body == Drop(r, 16)
             did == [computed |-> TRUE, wanted |-> payload_size, wrapped |-> underflow]
         IN
    IF underflow /\ checks
    THEN Panicked("attempt to subtract with overflow") @@ none @@ [rest |-> body]
    ELSE IF payload_size.hi # 0 \/ payload_size.lo > Len(body)
    THEN Failed(IoError("UnexpectedEof")) @@ did @@ [rest |-> <<>>]
    ELSE LET data == Take(body, payload_size.lo)
             made == PacketNew(protocol.val, packet_type.val, tag, data, checks)
         IN  IF made.res # "Ok" THEN made @@ did @@ [rest |-> Drop(body, payload_size.lo)]
             ELSE Returned([made.packet EXCEPT !.size = size]) @@ did
                      @@ [rest |-> Drop(body, payload_size.lo)]

(***************************************************************************)
(* The plist value tree (external crate plist) as protocol.rs uses it.     *)
(* A Value is a record with its kind in k; a Dictionary holds a function   *)
(* from key strings to Values.                                             *)
(***************************************************************************)
VString(s) == [k |-> "String", s |-> s]
VInteger(i) == [k |-> "Integer", i |-> i]
VBoolean(b) == [k |-> "Boolean", b |-> b]
VDictionary(d) == [k |-> "Dictionary", d |-> d]

Some(x) == [some |-> TRUE, v |-> x]
None == [some |-> FALSE]

\* Result::Ok of a decoder
Ok(v) == [res |-> "Ok", val |-> v]

\* plist::Dictionary::get
Get(d, key) == IF key \in DOMAIN d THEN Some(d[key]) ELSE None

\* a conversion that takes the magnitude of a negative integer
AsUnsignedIntegerOrMagnitude(v) ==
    IF v.k = "Integer" THEN Some(IF v.i >= 0 THEN v.i ELSE 0 - v.i) ELSE None

\* plist::Value::as_unsigned_integer
AsUnsignedInteger(v) == IF v.k = "Integer" /\ v.i >= 0 THEN Some(v.i) ELSE None

\* a conversion that refuses negative integers
AsSignedIntegerNonNegative(v) == IF v.k = "Integer" /\ v.i >= 0 THEN Some(v.i) ELSE None

\* plist::Value::as_signed_integer
AsSignedInteger(v) == IF v.k = "Integer" THEN Some(v.i) ELSE None

\* a conversion that makes the empty string of what is no string
AsStringOrEmpty(v) == IF v.k = "String" THEN Some(v.s) ELSE Some("")

\* plist::Value::as_string
AsString(v) == IF v.k = "String" THEN Some(v.s) ELSE None

\* a lookup that makes the empty string of an entry that is no string
GetStringOrEmpty(d, key) ==
    IF Get(d, key).some
    THEN (IF Get(d, key).v.k = "String" THEN Some(Get(d, key).v.s) ELSE Some(""))
    ELSE None

\* d.get(key).and_then(f), for f one of the three conversions above
GetUnsigned(d, key) == IF Get(d, key).some THEN AsUnsignedInteger(Get(d, key).v) ELSE None
GetSigned(d, key) == IF Get(d, key).some THEN AsSignedInteger(Get(d, key).v) ELSE None
GetString(d, key) == IF Get(d, key).some THEN AsString(Get(d, key).v) ELSE None

USB_MESSAGE_TYPE_KEY == "MessageType"
USB_DEVICE_ID_KEY == "DeviceID"
USB_DEVICE_PROPERTIES_KEY == "Properties"

\* a conversion that takes Paired for Detached
MessageTypeTryFromPairedAsDetached(value) ==
    IF value.k = "String"
    THEN IF value.s \in {"Paired", "Detached"} THEN [res |-> "Ok", val |-> "Detached"]
         ELSE IF value.s \in {"Result", "Attached"} THEN [res |-> "Ok", val |-> value.s]
         ELSE [res |-> "Err", err |-> InvalidMessageType(value.s)]
    ELSE [res |-> "Err", err |-> InvalidMessageType("Invalid PLIST type")]

\* a conversion that takes Result for Paired
MessageTypeTryFromResultAsPaired(value) ==
    IF value.k = "String"
    THEN IF value.s \in {"Paired", "Result"} THEN [res |-> "Ok", val |-> "Paired"]
         ELSE IF value.s \in {"Detached", "Attached"} THEN [res |-> "Ok", val |-> value.s]
         ELSE [res |-> "Err", err |-> InvalidMessageType(value.s)]
    ELSE [res |-> "Err", err |-> InvalidMessageType("Invalid PLIST type")]

\* impl TryFrom<&Value> for MessageType
MessageTypeTryFrom(value) ==
    IF value.k = "String"
    THEN IF value.s \in {"Paired", "Result", "Attached", "Detached"}
         THEN Ok(value.s)
         ELSE Failed(InvalidMessageType(value.s))
    ELSE Failed(InvalidMessageType("Invalid PLIST type"))

\* a classification that knows no product
ProductTypeFromUnknown(product_id) == [t |-> "Unknown", id |-> product_id]

\* impl From<u16> for ProductType
ProductTypeFrom(product_id) ==
    CASE product_id = 4776 -> [t |-> "IPhone", id |-> 0]
      [] product_id = 4778 -> [t |-> "IPodTouch", id |-> 0]
      [] product_id = 4779 -> [t |-> "IPad", id |-> 0]
      [] OTHER             -> [t |-> "Unknown", id |-> product_id]

\* impl TryFrom<&Value> for DeviceConnectionType
DeviceConnectionTypeTryFrom(value) ==
    LET s == AsString(value)
    IN  IF ~s.some THEN Failed(InvalidPlistEntryForKey("ConnectionType"))
        ELSE IF s.v = "USB" THEN Ok([t |-> "USB", s |-> ""])
        ELSE Ok([t |-> "Unknown", s |-> s.v])

\* impl TryFrom<&Value> for DeviceAttachedInfo
DeviceAttachedInfoTryFrom(value) ==
    IF value.k # "Dictionary" THEN Failed(InvalidPlistEntry)
    ELSE LET d == value.d
             ct == Get(d, "ConnectionType")
             connection_type == IF ct.some THEN DeviceConnectionTypeTryFrom(ct.v)
                                ELSE Failed(InvalidPlistEntryForKey("ConnectionType"))
             device_id == GetUnsigned(d, USB_DEVICE_ID_KEY)
             location_id == GetUnsigned(d, "LocationID")
             product_id == GetUnsigned(d, "ProductID")
             identifier == GetString(d, "SerialNumber")
         IN  IF connection_type.res # "Ok"
                 THEN Failed(InvalidPlistEntryForKey("ConnectionType"))
             ELSE IF ~device_id.some
                 THEN Failed(InvalidPlistEntryForKey(USB_DEVICE_ID_KEY))
             ELSE IF ~location_id.some
                 THEN Failed(InvalidPlistEntryForKey("LocationID"))
             ELSE IF ~product_id.some
                 THEN Failed(InvalidPlistEntryForKey("ProductID"))
             ELSE IF ~identifier.some
                 THEN Failed(InvalidPlistEntryForKey("SerialNumber"))
             ELSE Ok([connection_type |-> connection_type.val,
                      device_id |-> device_id.v,
                      location_id |-> location_id.v,
                      product_type |-> ProductTypeFrom(product_id.v % Half),
                      identifier |-> identifier.v])

\* DeviceEvent values
Attached(info) == [ev |-> "Attached", info |-> info]
Detached(id) == [ev |-> "Detached", id |-> id]
Paired(id) == [ev |-> "Paired", id |-> id]

\* impl TryFrom<&Value> for DeviceEvent
DeviceEventTryFrom(value) ==
    IF value.k # "Dictionary" THEN Failed(InvalidPlistEntry)
    ELSE LET d == value.d
             mt == Get(d, USB_MESSAGE_TYPE_KEY)
         IN
    IF ~mt.some THEN Panicked("unwrap on None")
    ELSE LET msg_type == MessageTypeTryFrom(mt.v)
             device_id == GetUnsigned(d, USB_DEVICE_ID_KEY)
             props == Get(d, USB_DEVICE_PROPERTIES_KEY)
             device_info == IF props.some THEN DeviceAttachedInfoTryFrom(props.v)
                            ELSE Failed(InvalidPlistEntry)
         IN
    IF msg_type.res # "Ok" THEN msg_type
    ELSE IF ~device_id.some THEN Failed(InvalidPlistEntryForKey(USB_DEVICE_ID_KEY))
    ELSE CASE msg_type.val = "Attached" ->
                  IF device_info.res = "Ok" THEN Ok(Attached(device_info.val))
                  ELSE Failed(InvalidPlistEntryForKey(USB_DEVICE_PROPERTIES_KEY))
           [] msg_type.val = "Detached" -> Ok(Detached(device_id.v))
           [] msg_type.val = "Paired" -> Ok(Paired(device_id.v))
           [] msg_type.val = "Result" -> Failed(InvalidMessageType("Result"))

\* ResultMessage(pub i64)
ResultMessage(n) == [number |-> n]

\* a decoder that takes any dictionary for a success reply
ResultMessageTryFromAnyDict(value) ==
    IF value.k # "Dictionary" THEN Failed(InvalidPlistEntry)
    ELSE Ok(ResultMessage(0))

\* impl TryFrom<&Value> for ResultMessage
ResultMessageTryFrom(value) ==
    IF value.k # "Dictionary" THEN Failed(InvalidPlistEntry)
    ELSE LET num == GetSigned(value.d, "Number")
         IN  IF ~num.some THEN Failed(InvalidPlistEntryForKey("SerialNumber"))
             ELSE Ok(ResultMessage(num.v))

(***************************************************************************)
(* The plist documents on the wire.  The XML encoding belongs to the       *)
(* external plist crate; here a document is two bytes, a kind and an       *)
(* argument, and every other byte string is not a plist.                   *)
(***************************************************************************)
\* a byte as a signed 8-bit number
Int8(b) == IF b < 128 THEN b ELSE b - 256

AttachedProperties(id) ==
    [ConnectionType |-> VString("USB"), DeviceID |-> VInteger(id),
     LocationID |-> VInteger(0), ProductID |-> VInteger(4779),
     SerialNumber |-> VString("00001011-000A111E0111001E")]

\* plist::Value::from_reader: Some(value), or None for bytes that are no plist
PlistValueFromReader(data) ==
    IF Len(data) = 4 /\ data[1] = 9
    THEN Some(VDictionary([MessageType |-> VString("Connect"),
                           ProgName |-> VString("Peertalk Example"),
                           ClientVersionString |-> VString("1"),
                           PortNumber |-> VInteger(data[2] + 256 * data[3]),
                           DeviceID |-> VInteger(data[4])]))
    ELSE IF Len(data) # 2 THEN None
    ELSE CASE data[1] = 1 ->
                  Some(VDictionary([MessageType |-> VString("Result"),
                                    Number |-> VInteger(Int8(data[2]))]))
           [] data[1] = 2 ->
                  Some(VDictionary([MessageType |-> VString("Attached"),
                                    DeviceID |-> VInteger(data[2]),
                                    Properties |-> VDictionary(AttachedProperties(data[2]))]))
           [] data[1] = 3 ->
                  Some(VDictionary([MessageType |-> VString("Detached"),
                                    DeviceID |-> VInteger(data[2])]))
           [] data[1] = 4 ->
                  Some(VDictionary([MessageType |-> VString("Paired"),
                                    DeviceID |-> VInteger(data[2])]))
           [] data[1] = 5 ->
                  Some(VDictionary([DeviceID |-> VInteger(data[2])]))
           [] data[1] = 6 ->
                  Some(VDictionary([MessageType |-> VString("Attached"),
                                    DeviceID |-> VInteger(data[2])]))
           [] data[1] = 7 -> Some(VInteger(data[2]))
           [] data[1] = 8 ->
                  Some(VDictionary(
                      [MessageType |-> VString("Listen"),
                       ProgName |-> VString(IF data[2] = 0 THEN "MyApp"
                                            ELSE "Peertalk Example"),
                       ClientVersionString |-> VString(IF data[2] = 0 THEN "1.0"
                                                       ELSE "1")]))
           [] OTHER -> None

\* DeviceEvent::from_vec
DeviceEventFromVec(data) ==
    LET dict == PlistValueFromReader(data)
    IN  IF ~dict.some THEN Panicked("unwrap on Err")
        ELSE DeviceEventTryFrom(dict.v)

\* ResultMessage::from_reader
ResultMessageFromReader(data) ==
    LET r == PlistValueFromReader(data)
    IN  IF ~r.some THEN Panicked("unwrap on Err")
        ELSE ResultMessageTryFrom(r.v)

(***************************************************************************)
(* The codec harness: build a packet, write it, read it back; or read      *)
(* bytes that a peer put on the stream.                                    *)
(***************************************************************************)
NoResult == [res |-> "None"]
NoPanic == [at |-> "", why |-> ""]

\* the polling listener is not part of the run
PollOff ==
    /\ in_flight = <<>> /\ wire_events = <<>> /\ npc = "off" /\ attempts = 0
    /\ buf = <<>> /\ events = <<>> /\ last_event = None /\ delivered = <<>>
    /\ carry_tail = TRUE /\ tail_lost = FALSE

\* connect has no arguments yet
NoArgs == [none |-> TRUE]

\* the device connector is not part of the run
ConnOff ==
    /\ kpc = "off" /\ connect_args = NoArgs /\ transport = "none" /\ blocking = TRUE
    /\ wire_replies = <<>> /\ connect_result = NoResult

\* no function has been called
NoInput == [fn |-> "none"]

\* the single calls are not part of the run
FnOff == fpc = "off" /\ input = NoInput /\ outcome = NoResult

\* no stream of packets is part of the run
StreamOff == spc = "off" /\ wrote = <<>> /\ got = <<>>

\* payload bytes the harness draws from
PayloadBytes == {0, 255}
Payloads == UNION {[1..n -> PayloadBytes] : n \in 0..MaxPayload}

\* tags and raw header words the harness draws from
Tags == {U32FromNat(0), U32FromNat(258), U32Max}
SizeWords == {U32FromNat(0), U32FromNat(15), U32FromNat(16), U32FromNat(17),
              U32FromNat(18), U32(1, 16), U32Max}
ProtocolWords == {U32FromNat(0), U32FromNat(1), U32FromNat(2), U32(1, 0), U32Max}
PacketTypeWords == {U32FromNat(n) : n \in 0..9} \cup {U32(1, 1), U32Max}

CodecInit ==
    /\ cpc = "idle"
    /\ packet = NoPacket
    /\ stream = <<>>
    /\ pos = 0
    /\ result = NoResult
    /\ overflow_checks \in BOOLEAN
    /\ sock_in = <<>> /\ sock_out = <<>> /\ peer_closed = FALSE /\ frames_sent = 0
    /\ lpc = "off" /\ listen_result = NoResult /\ printed = <<>> /\ lib_panic = NoPanic
    /\ PollOff
    /\ ConnOff
    /\ big_endian = FALSE
    /\ FnOff
    /\ StreamOff

\* Packet::new(protocol, packet_type, tag, payload)
CodecNew ==
    /\ cpc = "idle"
    /\ \E protocol \in Protocols, packet_type \in PacketTypes, tag \in Tags,
          payload \in Payloads :
          LET made == PacketNew(protocol, packet_type, tag, payload, overflow_checks)
          IN  /\ made.res = "Ok"
              /\ packet' = made.packet
    /\ cpc' = "made"
    /\ UNCHANGED <<stream, pos, result, overflow_checks, sockVars, libVars, pollVars, connVars,
                   big_endian, fnVars, streamVars>>

\* packet.write_into(&mut stream)
CodecWrite ==
    /\ cpc = "made"
    /\ stream' = stream \o WriteInto(packet)
    /\ cpc' = "written"
    /\ UNCHANGED <<packet, pos, result, overflow_checks, sockVars, libVars, pollVars, connVars,
                   big_endian, fnVars, streamVars>>

\* A peer puts a header of its own choice, and a payload, on the stream.
CodecInject ==
    /\ cpc = "idle"
    /\ \E size \in SizeWords, protocol \in ProtocolWords, packet_type \in PacketTypeWords,
          payload \in Payloads :
          stream' = WriteU32LE(size) \o WriteU32LE(protocol) \o WriteU32LE(packet_type)
                        \o WriteU32LE(U32FromNat(0)) \o payload
    /\ cpc' = "written"
    /\ UNCHANGED <<packet, pos, result, overflow_checks, sockVars, libVars, pollVars, connVars,
                   big_endian, fnVars, streamVars>>

\* Packet::from_reader(&mut stream)
CodecRead ==
    /\ cpc = "written"
    /\ result' = FromReader(Drop(stream, pos), overflow_checks)
    /\ pos' = Len(stream) - Len(result'.rest)
    /\ cpc' = "read"
    /\ UNCHANGED <<packet, stream, overflow_checks, sockVars, libVars, pollVars, connVars,
                   big_endian, fnVars, streamVars>>

CodecNext == CodecNew \/ CodecWrite \/ CodecInject \/ CodecRead

SpecCodec == CodecInit /\ [][CodecNext]_vars

(***************************************************************************)
(* The usbmux service, the peer on the transport.  It sends whole frames,  *)
(* well-formed or not, and may close the connection.                       *)
(***************************************************************************)
\* a frame with a header of the service's choice
Frame(size, protocol, packet_type, payload) ==
    WriteU32LE(size) \o WriteU32LE(protocol) \o WriteU32LE(packet_type)
        \o WriteU32LE(U32FromNat(0)) \o payload

\* a well-formed Plist / PlistPayload frame around a plist document
PlistFrame(payload) ==
    Frame(U32FromNat(16 + Len(payload)), U32FromNat(1), U32FromNat(8), payload)

ResultFrame(code) == PlistFrame(<<1, code>>)
AttachedFrame(id) == PlistFrame(<<2, id>>)
DetachedFrame(id) == PlistFrame(<<3, id>>)
PairedFrame(id) == PlistFrame(<<4, id>>)

\* frames whose header does not decode
BadProtocolFrame == Frame(U32FromNat(18), U32FromNat(2), U32FromNat(8), <<3, 1>>)
BadPacketTypeFrame == Frame(U32FromNat(18), U32FromNat(1), U32FromNat(6), <<3, 1>>)
\* a frame of the Binary protocol
BinaryFrame == Frame(U32FromNat(18), U32FromNat(0), U32FromNat(1), <<3, 1>>)
\* a Plist frame whose payload is no plist
NotPlistFrame == PlistFrame(<<0, 0>>)
\* a frame that declares a total_size below the header's own size
ShortSizeFrame == Frame(U32FromNat(8), U32FromNat(1), U32FromNat(8), <<>>)

ServiceFrames ==
    {ResultFrame(0), ResultFrame(3), AttachedFrame(1), DetachedFrame(1), PairedFrame(2),
     BadProtocolFrame, BadPacketTypeFrame, BinaryFrame, NotPlistFrame, ShortSizeFrame}

\* the service sends one more frame
ServiceSend ==
    /\ lpc \in {"await_result", "loop"}
    /\ ~peer_closed
    /\ frames_sent < MaxFrames
    /\ \E f \in ServiceFrames : sock_in' = sock_in \o f
    /\ frames_sent' = frames_sent + 1
    /\ UNCHANGED <<sock_out, peer_closed, overflow_checks, codecVars, libVars, pollVars, connVars,
                   big_endian, fnVars, streamVars>>

\* the service closes the connection
ServiceClose ==
    /\ lpc \in {"await_result", "loop"}
    /\ ~peer_closed
    /\ peer_closed' = TRUE
    /\ UNCHANGED <<sock_in, sock_out, frames_sent, overflow_checks, codecVars, libVars, pollVars, connVars,
                   big_endian, fnVars, streamVars>>

(***************************************************************************)
(* lib.rs: Packet, Command and DeviceListener.                             *)
(***************************************************************************)
\* lib.rs Command::new
LibCommandNew(command) ==
    [message_type |-> command, prog_name |-> "MyApp", client_version_string |-> "1.0"]

\* plist::to_writer_xml of a Command: the document's bytes
PlistToWriterXml(command) ==
    IF command.message_type = "Listen"
    THEN <<8, IF command.prog_name = "MyApp" THEN 0 ELSE 1>>
    ELSE <<9, command.port_number % 256, command.port_number \div 256, command.device_id>>

\* lib.rs Packet::from_reader: as protocol.rs reads the frame, but every read is
\* unwrapped, so an I/O error is a panic instead of an Err
LibPacketFromReader(r, checks) ==
    LET x == FromReader(r, checks)
    IN  IF x.res = "Err" /\ x.err.e = "IoError"
        THEN Panicked("unwrap on Err") @@ x
        ELSE x

\* why unwrap() of a failed lib.rs Packet::from_reader panics: the header did not
\* decode, the size arithmetic overflowed, or the socket failed
PanicCause(x) ==
    IF x.res = "Err" THEN "decode"
    ELSE IF x.msg = "unwrap on Err" THEN "io"
    ELSE "overflow"

\* A blocking read on the socket returns once the bytes it asks for are there, or
\* the peer has closed; until then the call waits.
ReadReturns ==
    LET x == FromReader(sock_in, overflow_checks)
    IN  peer_closed \/ ~(x.res = "Err" /\ x.err.e = "IoError")

LibInit ==
    /\ cpc = "off" /\ packet = NoPacket /\ stream = <<>> /\ pos = 0 /\ result = NoResult
    /\ overflow_checks \in BOOLEAN
    /\ sock_in = <<>> /\ sock_out = <<>> /\ peer_closed = FALSE /\ frames_sent = 0
    /\ lpc = "new"
    /\ listen_result = NoResult
    /\ printed = <<>>
    /\ lib_panic = NoPanic
    /\ PollOff
    /\ ConnOff
    /\ big_endian = FALSE
    /\ FnOff
    /\ StreamOff

\* DeviceListener::new, the connection fails: expect() panics
LibNewConnectFails ==
    /\ lpc = "new"
    /\ lpc' = "panicked"
    /\ lib_panic' = [at |-> "connect", why |-> "io"]
    /\ UNCHANGED <<listen_result, printed, sockVars, overflow_checks, codecVars, pollVars, connVars,
                   big_endian, fnVars, streamVars>>

\* DeviceListener::new up to the first read of start_listen: connect, build the
\* Listen command, send_payload; the write fails and unwrap() panics
LibNewWriteFails ==
    /\ lpc = "new"
    /\ lpc' = "panicked"
    /\ lib_panic' = [at |-> "send_payload", why |-> "io"]
    /\ UNCHANGED <<listen_result, printed, sockVars, overflow_checks, codecVars, pollVars, connVars,
                   big_endian, fnVars, streamVars>>

\* DeviceListener::new up to the first read of start_listen: connect, build the
\* Listen command, send_payload (Packet::new with tag 0, write_into)
LibNewSendListen ==
    /\ lpc = "new"
    /\ LET payload == PlistToWriterXml(LibCommandNew("Listen"))
           made == PacketNew("Plist", "PlistPayload", U32FromNat(0), payload,
                             overflow_checks)
       IN  /\ Len(payload) # 0
           /\ made.res = "Ok"
           /\ sock_out' = sock_out \o WriteInto(made.packet)
    /\ lpc' = "await_result"
    /\ UNCHANGED <<sock_in, peer_closed, frames_sent, listen_result, printed, lib_panic,
                   overflow_checks, codecVars, pollVars, connVars,
                   big_endian, fnVars, streamVars>>

\* start_listen: read one packet, decode it as a ResultMessage, print it, and go
\* on to the loop whatever it says
LibReadResult ==
    /\ lpc = "await_result"
    /\ ReadReturns
    /\ \E x \in {LibPacketFromReader(sock_in, overflow_checks)} :
       LET res == ResultMessageFromReader(x.packet.data)
       IN  /\ sock_in' = x.rest
           /\ IF x.res # "Ok"
              THEN /\ lpc' = "panicked"
                   /\ lib_panic' = [at |-> "await_result",
                                    why |-> PanicCause(x)]
                   /\ UNCHANGED listen_result
              ELSE IF res.res = "Panic"
              THEN /\ lpc' = "panicked"
                   /\ lib_panic' = [at |-> "await_result", why |-> "decode"]
                   /\ UNCHANGED listen_result
              ELSE /\ lpc' = "loop"
                   /\ listen_result' = res
                   /\ UNCHANGED lib_panic
    /\ UNCHANGED <<sock_out, peer_closed, frames_sent, printed, overflow_checks, codecVars,
                   pollVars, connVars,
                   big_endian, fnVars, streamVars>>

\* the line the loop prints for a packet that is not of the Plist protocol
Ignored == [res |-> "Ignored"]

\* start_listen, one turn of the loop: read one packet; a Plist packet is decoded
\* and the result printed, any other packet is ignored, which is printed too
LibLoop ==
    /\ lpc = "loop"
    /\ ReadReturns
    /\ \E x \in {LibPacketFromReader(sock_in, overflow_checks)} :
       LET msg == DeviceEventFromVec(x.packet.data)
       IN  /\ sock_in' = x.rest
           /\ IF x.res # "Ok"
              THEN /\ lpc' = "panicked"
                   /\ lib_panic' = [at |-> "loop",
                                    why |-> PanicCause(x)]
                   /\ UNCHANGED printed
              ELSE IF x.packet.protocol # "Plist"
              THEN /\ printed' = Append(printed, Ignored)
                   /\ UNCHANGED <<lpc, lib_panic>>
              ELSE IF msg.res = "Panic"
              THEN /\ lpc' = "panicked"
                   /\ lib_panic' = [at |-> "loop", why |-> "decode"]
                   /\ UNCHANGED printed
              ELSE /\ printed' = Append(printed, msg)
                   /\ UNCHANGED <<lpc, lib_panic>>
    /\ UNCHANGED <<sock_out, peer_closed, frames_sent, listen_result, overflow_checks,
                   codecVars, pollVars, connVars,
                   big_endian, fnVars, streamVars>>

\* the steps of the program, apart from those of the service
LibStep == LibNewConnectFails \/ LibNewWriteFails \/ LibNewSendListen \/ LibReadResult
               \/ LibLoop

LibNext ==
    \/ LibNewConnectFails
    \/ LibNewWriteFails
    \/ LibNewSendListen
    \/ LibReadResult
    \/ LibLoop
    \/ ServiceSend
    \/ ServiceClose

SpecLib == LibInit /\ [][LibNext]_vars

\* the program takes a step whenever it can: a call that can return does return
FairSpecLib == SpecLib /\ WF_vars(LibStep)

(***************************************************************************)
(* The polling listener that the examples drive: a DeviceListener in the   *)
(* Listening state, its transport non-blocking, and next_event.  lib.rs    *)
(* under src/ has no next_event; this part follows the specification       *)
(* (sections 4.4, 5 and 9), and uses the codec and the decoders of         *)
(* protocol.rs.  The specification allows two buffering strategies: the    *)
(* bytes of an unfinished frame are thrown away when a call returns, or    *)
(* they are carried over to the next call.  carry_tail says which one the  *)
(* listener at hand is built with.                                         *)
(***************************************************************************)
\* read attempts of one next_event call, 100 ms apart
RetryBudget == 5

\* the event a decoder is to make of AttachedFrame(id)
AttachedEvent(id) ==
    Attached([connection_type |-> [t |-> "USB", s |-> ""],
              device_id |-> id,
              location_id |-> 0,
              product_type |-> [t |-> "IPad", id |-> 0],
              identifier |-> "00001011-000A111E0111001E"])

\* what the service sends to a listening client: frames that carry a device
\* event (ev says which), and frames that carry none
PollFrames ==
    {[bytes |-> AttachedFrame(1), ev |-> Some(AttachedEvent(1))],
     [bytes |-> DetachedFrame(1), ev |-> Some(Detached(1))],
     [bytes |-> PairedFrame(2), ev |-> Some(Paired(2))],
     [bytes |-> ResultFrame(0), ev |-> None],
     [bytes |-> BinaryFrame, ev |-> None],
     [bytes |-> BadProtocolFrame, ev |-> None]}

\* where the service may cut a frame in two: inside the header, inside the payload
SplitPoints == {4, 17}

\* the service sends one more frame; all of it arrives at once
PollServiceSend ==
    /\ npc \in {"idle", "drain"}
    /\ in_flight = <<>>
    /\ frames_sent < MaxPollFrames
    /\ \E f \in PollFrames :
          /\ sock_in' = sock_in \o f.bytes
          /\ wire_events' = IF f.ev.some THEN Append(wire_events, f.ev.v) ELSE wire_events
    /\ frames_sent' = frames_sent + 1
    /\ UNCHANGED <<carry_tail, tail_lost, in_flight, npc, attempts, buf, events, last_event, delivered,
                   sock_out, peer_closed, overflow_checks, codecVars, libVars, connVars,
                   big_endian, fnVars, streamVars>>

\* the service sends one more frame; its first bytes arrive now, the rest later
PollServiceSendSplit ==
    /\ npc \in {"idle", "drain"}
    /\ in_flight = <<>>
    /\ frames_sent < MaxPollFrames
    /\ \E f \in PollFrames, k \in SplitPoints :
          /\ sock_in' = sock_in \o Take(f.bytes, k)
          /\ in_flight' = Drop(f.bytes, k)
          /\ wire_events' = IF f.ev.some THEN Append(wire_events, f.ev.v) ELSE wire_events
    /\ frames_sent' = frames_sent + 1
    /\ UNCHANGED <<carry_tail, tail_lost, npc, attempts, buf, events, last_event, delivered,
                   sock_out, peer_closed, overflow_checks, codecVars, libVars, connVars,
                   big_endian, fnVars, streamVars>>

\* the rest of a frame arrives
PollServiceDeliver ==
    /\ in_flight # <<>>
    /\ sock_in' = sock_in \o in_flight
    /\ in_flight' = <<>>
    /\ UNCHANGED <<carry_tail, tail_lost, wire_events, npc, attempts, buf, events, last_event, delivered,
                   sock_out, peer_closed, frames_sent, overflow_checks, codecVars, libVars, connVars,
                   big_endian, fnVars, streamVars>>

\* The frames that are whole in the bytes b, decoded: events the device events of
\* the Plist frames that decode, in order; rest the bytes of an unfinished frame.
\* A frame that does not decode is skipped.
RECURSIVE ParseFrames(_, _)
ParseFrames(b, checks) ==
    IF Len(b) < 16 THEN [events |-> <<>>, rest |-> b]
    ELSE LET total_size == ReadU32LE(Take(b, 4)) IN
    IF U32Less(total_size, BASE_PACKET_SIZE)
    THEN ParseFrames(Drop(b, 16), checks)
    ELSE IF total_size.hi # 0 \/ total_size.lo > Len(b) THEN [events |-> <<>>, rest |-> b]
    ELSE LET x == FromReader(Take(b, total_size.lo), checks)
             msg == DeviceEventFromVec(x.packet.data)
             more == ParseFrames(Drop(b, total_size.lo), checks)
         IN  IF x.res = "Ok" /\ x.packet.protocol = "Plist" /\ msg.res = "Ok"
             THEN [events |-> <<msg.val>> \o more.events, rest |-> more.rest]
             ELSE more

\* a queue that hands out its newest event
PopBack(q) ==
    IF q = <<>> THEN [head |-> None, tail |-> <<>>]
    ELSE [head |-> Some(q[Len(q)]), tail |-> SubSeq(q, 1, Len(q) - 1)]

\* a queue that hands out an event when it has none
PopFrontOrDefault(q) ==
    IF q = <<>> THEN [head |-> Some(Detached(0)), tail |-> <<>>]
    ELSE [head |-> Some(Head(q)), tail |-> Tail(q)]

\* VecDeque::pop_front: the oldest event, if any, and the queue without it
PopFront(q) ==
    IF q = <<>> THEN [head |-> None, tail |-> <<>>]
    ELSE [head |-> Some(Head(q)), tail |-> Tail(q)]

\* a retry loop that gives up late
DrainDoneLate == attempts >= 2 * RetryBudget

\* the retry budget of the current call is used up
DrainDone == attempts >= RetryBudget

PollInit ==
    /\ cpc = "off" /\ packet = NoPacket /\ stream = <<>> /\ pos = 0 /\ result = NoResult
    /\ overflow_checks \in BOOLEAN
    /\ sock_in = <<>> /\ sock_out = <<>> /\ peer_closed = FALSE /\ frames_sent = 0
    /\ lpc = "off" /\ listen_result = NoResult /\ printed = <<>> /\ lib_panic = NoPanic
    /\ in_flight = <<>>
    /\ wire_events = <<>>
    /\ npc = "idle"
    /\ attempts = 0
    /\ buf = <<>>
    /\ events = <<>>
    /\ last_event = None
    /\ delivered = <<>>
    /\ carry_tail \in BOOLEAN
    /\ tail_lost = FALSE
    /\ ConnOff
    /\ big_endian = FALSE
    /\ FnOff
    /\ StreamOff

\* the caller calls next_event
NextEventCall ==
    /\ npc = "idle"
    /\ npc' = "drain"
    /\ attempts' = 0
    /\ UNCHANGED <<carry_tail, tail_lost, in_flight, wire_events, buf, events, last_event, delivered,
                   sockVars, overflow_checks, codecVars, libVars, connVars,
                   big_endian, fnVars, streamVars>>

\* the retry loop of next_event, one more turn: the attempt is counted
DrainControl ==
    /\ npc = "drain"
    /\ ~DrainDone
    /\ attempts' = attempts + 1
    /\ npc' = npc

\* the retry loop of next_event, left: the call returns
ReturnControl ==
    /\ npc = "drain"
    /\ DrainDone
    /\ npc' = "idle"
    /\ attempts' = attempts

\* the control flow of a next_event call once it is made
NextEventControl == DrainControl \/ ReturnControl

\* next_event, one read attempt: take every byte that is there now, up to the
\* would-block
DrainAttempt ==
    /\ DrainControl
    /\ buf' = buf \o sock_in
    /\ sock_in' = <<>>
    /\ UNCHANGED <<carry_tail, tail_lost, in_flight, wire_events, events, last_event, delivered,
                   sock_out, peer_closed, frames_sent, overflow_checks, codecVars, libVars, connVars,
                   big_endian, fnVars, streamVars>>

\* next_event, after the last attempt: decode the whole frames read, queue their
\* events, and return the oldest queued event or None
NextEventReturn ==
    /\ ReturnControl
    /\ LET parsed == ParseFrames(buf, overflow_checks)
           popped == PopFront(events \o parsed.events)
       IN  /\ buf' = IF carry_tail THEN parsed.rest ELSE <<>>
           /\ tail_lost' = (tail_lost \/ (~carry_tail /\ parsed.rest # <<>>))
           /\ events' = popped.tail
           /\ last_event' = popped.head
           /\ delivered' = IF popped.head.some THEN Append(delivered, popped.head.v)
                           ELSE delivered
    /\ UNCHANGED <<carry_tail, in_flight, wire_events,
                   sockVars, overflow_checks, codecVars, libVars, connVars,
                   big_endian, fnVars, streamVars>>

PollNext ==
    \/ NextEventCall
    \/ DrainAttempt
    \/ NextEventReturn
    \/ PollServiceSend
    \/ PollServiceSendSplit
    \/ PollServiceDeliver

SpecPoll == PollInit /\ [][PollNext]_vars

\* A call that can go on does go on.  What a step does to the data is defined for
\* every state, so a step of the call is enabled exactly when its control part is.
FairSpecPoll == SpecPoll /\ WF_<<npc, attempts>>(NextEventControl)

(***************************************************************************)
(* protocol.rs: Command.                                                   *)
(***************************************************************************)
\* a swap that leaves the bytes where they are
U16KeepBytes(n) == n

\* u16::swap_bytes
U16SwapBytes(n) == (n % 256) * 256 + (n \div 256)

\* u16::to_be: a no-op on a big-endian target, swap_bytes on a little-endian one
U16ToBe(n, target_big_endian) == IF target_big_endian THEN n ELSE U16SwapBytes(n)

\* Command::new
CommandNew(command) ==
    [message_type |-> command, prog_name |-> "Peertalk Example",
     client_version_string |-> "1"]

\* Command::connect
CommandConnect(port, device_id, target_big_endian) ==
    [port_number |-> U16ToBe(port, target_big_endian), device_id |-> device_id]
        @@ CommandNew("Connect")

\* Command::to_bytes
CommandToBytes(command) == PlistToWriterXml(command)

(***************************************************************************)
(* The device connector that the examples call (connect_to_device).        *)
(* lib.rs under src/ has no such function; its control flow follows the    *)
(* specification (section 4.5), and it uses Command::connect, the codec    *)
(* and the ResultMessage decoder of protocol.rs.                           *)
(***************************************************************************)
\* errors of the handshake
ServiceUnavailable == [e |-> "ServiceUnavailable"]
ConnectionRefused(code) == [e |-> "ConnectionRefused", code |-> code]

\* the tunnel connect hands to its caller
Tunnel == [res |-> "Ok", tunnel |-> TRUE]

\* devices and ports the caller asks for
DeviceIds == {1, 3}
Ports == {2345, 255, 256}

\* what the service replies to Connect: ResultMessages with a code (0 accepts;
\* 2, 3 and -1 refuse), and frames that are no ResultMessage
ConnFrames ==
    {[bytes |-> ResultFrame(0), code |-> Some(0)],
     [bytes |-> ResultFrame(2), code |-> Some(2)],
     [bytes |-> ResultFrame(3), code |-> Some(3)],
     [bytes |-> ResultFrame(255), code |-> Some(0 - 1)],
     [bytes |-> DetachedFrame(1), code |-> None],
     [bytes |-> BadProtocolFrame, code |-> None],
     [bytes |-> NotPlistFrame, code |-> None]}

ConnInit ==
    /\ cpc = "off" /\ packet = NoPacket /\ stream = <<>> /\ pos = 0 /\ result = NoResult
    /\ overflow_checks \in BOOLEAN
    /\ sock_in = <<>> /\ sock_out = <<>> /\ peer_closed = FALSE /\ frames_sent = 0
    /\ lpc = "off" /\ listen_result = NoResult /\ printed = <<>> /\ lib_panic = NoPanic
    /\ PollOff
    /\ kpc = "call"
    /\ connect_args \in [device_id : DeviceIds, port : Ports]
    /\ transport = "none"
    /\ blocking = TRUE
    /\ wire_replies = <<>>
    /\ connect_result = NoResult
    /\ big_endian \in BOOLEAN
    /\ FnOff
    /\ StreamOff

\* connect: the transport does not open
ConnectOpenFails ==
    /\ kpc = "call"
    /\ kpc' = "failed"
    /\ connect_result' = Failed(ServiceUnavailable)
    /\ UNCHANGED <<connect_args, transport, blocking, wire_replies,
                   sockVars, overflow_checks, codecVars, libVars, pollVars,
                   big_endian, fnVars, streamVars>>

\* connect: open a fresh transport and send the Connect command as one
\* Plist / PlistPayload packet
ConnectSend ==
    /\ kpc = "call"
    /\ LET payload == CommandToBytes(CommandConnect(connect_args.port,
                                                    connect_args.device_id, big_endian))
           made == PacketNew("Plist", "PlistPayload", U32FromNat(0), payload,
                             overflow_checks)
       IN  /\ Len(payload) # 0
           /\ made.res = "Ok"
           /\ sock_out' = sock_out \o WriteInto(made.packet)
    /\ transport' = "open"
    /\ kpc' = "await_result"
    /\ UNCHANGED <<connect_args, blocking, wire_replies, connect_result,
                   sock_in, peer_closed, frames_sent,
                   overflow_checks, codecVars, libVars, pollVars,
                   big_endian, fnVars, streamVars>>

\* the service sends a frame to the connector
ConnServiceSend ==
    /\ kpc \in {"await_result", "returned"}
    /\ ~peer_closed
    /\ frames_sent < MaxConnFrames
    /\ \E f \in ConnFrames :
          /\ sock_in' = sock_in \o f.bytes
          /\ wire_replies' = Append(wire_replies, f.code)
    /\ frames_sent' = frames_sent + 1
    /\ UNCHANGED <<kpc, connect_args, transport, blocking, connect_result,
                   sock_out, peer_closed, overflow_checks, codecVars, libVars, pollVars,
                   big_endian, fnVars, streamVars>>

\* the service closes the connection to the connector
ConnServiceClose ==
    /\ kpc = "await_result"
    /\ ~peer_closed
    /\ peer_closed' = TRUE
    /\ UNCHANGED <<sock_in, sock_out, frames_sent, overflow_checks, codecVars, libVars,
                   pollVars, connVars,
                   big_endian, fnVars, streamVars>>

\* connect: the blocking read of one packet, decoded as a ResultMessage.  Code 0:
\* the transport is returned as it is.  Any other outcome: the call fails and the
\* transport, which the call owns, is closed.
ConnectReadResult ==
    /\ kpc = "await_result"
    /\ ReadReturns
    /\ LET x == FromReader(sock_in, overflow_checks)
           res == ResultMessageFromReader(x.packet.data)
       IN  /\ sock_in' = x.rest
           /\ IF x.res = "Panic"
              THEN /\ kpc' = "panicked"
                   /\ connect_result' = Panicked(x.msg)
                   /\ transport' = "closed"
              ELSE IF x.res = "Err"
              THEN /\ kpc' = "failed"
                   /\ connect_result' = Failed(x.err)
                   /\ transport' = "closed"
              ELSE IF res.res = "Panic"
              THEN /\ kpc' = "panicked"
                   /\ connect_result' = Panicked(res.msg)
                   /\ transport' = "closed"
              ELSE IF res.res = "Err"
              THEN /\ kpc' = "failed"
                   /\ connect_result' = Failed(res.err)
                   /\ transport' = "closed"
              ELSE IF res.val.number # 0
              THEN /\ kpc' = "failed"
                   /\ connect_result' = Failed(ConnectionRefused(res.val.number))
                   /\ transport' = "closed"
              ELSE /\ kpc' = "returned"
                   /\ connect_result' = Tunnel
                   /\ transport' = "open"
    /\ UNCHANGED <<connect_args, blocking, wire_replies,
                   sock_out, peer_closed, frames_sent,
                   overflow_checks, codecVars, libVars, pollVars,
                   big_endian, fnVars, streamVars>>

ConnNext ==
    \/ ConnectOpenFails
    \/ ConnectSend
    \/ ConnServiceSend
    \/ ConnServiceClose
    \/ ConnectReadResult

SpecConnect == ConnInit /\ [][ConnNext]_vars

(***************************************************************************)
(* Single calls of the decoders and constructors of protocol.rs: the       *)
(* argument is drawn from the sets below, and the call is made.            *)
(***************************************************************************)
\* a dictionary from its entries: a set of <<key, Some(value) or None>>, a None
\* entry being a key the dictionary does not hold
DictOf(entries) ==
    [key \in {e[1] : e \in {x \in entries : x[2].some}} |->
        (CHOOSE e \in entries : e[1] = key)[2].v]

\* the entries a Properties dictionary may hold under each key
ConnectionTypeEntries == {None, Some(VString("USB")), Some(VString("Network")),
                          Some(VInteger(1))}
PropertiesDeviceIdEntries == {None, Some(VInteger(4)), Some(VInteger(0 - 1))}
LocationIdEntries == {None, Some(VInteger(0)), Some(VString("0"))}
ProductIdEntries == {None, Some(VInteger(4776)), Some(VInteger(4778)), Some(VInteger(4779)),
                     Some(VInteger(1)), Some(VInteger(70315)), Some(VString("iPad"))}
SerialNumberEntries == {None, Some(VString("00001011-000A111E0111001E")),
                        Some(VInteger(9))}

PropertiesValue(ct, id, loc, pid, sn) ==
    VDictionary(DictOf({<<"ConnectionType", ct>>, <<"DeviceID", id>>, <<"LocationID", loc>>,
                        <<"ProductID", pid>>, <<"SerialNumber", sn>>}))

\* values that are no dictionary
NonDictionaries == {VInteger(7), VString("Attached"), VBoolean(TRUE)}

\* arguments of DeviceAttachedInfo::try_from
AttachedInfoValues ==
    {PropertiesValue(ct, id, loc, pid, sn) :
        ct \in ConnectionTypeEntries, id \in PropertiesDeviceIdEntries,
        loc \in LocationIdEntries, pid \in ProductIdEntries, sn \in SerialNumberEntries}
    \cup NonDictionaries

\* the Properties of the attach fixture, with ProductID and ConnectionType varied
GoodProperties ==
    {PropertiesValue(ct, Some(VInteger(4)), Some(VInteger(0)), pid,
                     Some(VString("00001011-000A111E0111001E"))) :
        ct \in {Some(VString("USB")), Some(VString("Network"))},
        pid \in ProductIdEntries \ {None, Some(VString("iPad"))}}

\* Properties with one entry missing or of the wrong type
BadProperties ==
    {PropertiesValue(None, Some(VInteger(4)), Some(VInteger(0)), Some(VInteger(4779)),
                     Some(VString("00001011-000A111E0111001E"))),
     PropertiesValue(Some(VString("USB")), Some(VInteger(0 - 1)), Some(VInteger(0)),
                     Some(VInteger(4779)), Some(VString("00001011-000A111E0111001E"))),
     PropertiesValue(Some(VString("USB")), Some(VInteger(4)), Some(VString("0")),
                     Some(VInteger(4779)), Some(VString("00001011-000A111E0111001E"))),
     PropertiesValue(Some(VString("USB")), Some(VInteger(4)), Some(VInteger(0)),
                     None, Some(VString("00001011-000A111E0111001E"))),
     PropertiesValue(Some(VString("USB")), Some(VInteger(4)), Some(VInteger(0)),
                     Some(VInteger(4779)), Some(VInteger(9)))}

\* the entries a message dictionary may hold under each key
MessageTypeEntries ==
    {None, Some(VInteger(1))}
    \cup {Some(VString(s)) : s \in {"Attached", "Detached", "Paired", "Result", "Listen"}}
DeviceIdEntries == {None, Some(VInteger(3)), Some(VInteger(0)), Some(VInteger(0 - 1)),
                    Some(VString("3"))}
PropertiesEntries ==
    {None, Some(VInteger(5))} \cup {Some(p) : p \in GoodProperties \cup BadProperties}
NumberEntries == {None, Some(VInteger(0)), Some(VInteger(3)), Some(VInteger(0 - 1)),
                  Some(VString("0")), Some(VBoolean(FALSE))}

\* arguments of DeviceEvent::try_from
DeviceEventValues ==
    {VDictionary(DictOf({<<"MessageType", mt>>, <<"DeviceID", id>>, <<"Properties", props>>})) :
        mt \in MessageTypeEntries, id \in DeviceIdEntries, props \in PropertiesEntries}
    \cup NonDictionaries

\* arguments of ResultMessage::try_from
ResultMessageValues ==
    {VDictionary(DictOf({<<"MessageType", mt>>, <<"Number", n>>})) :
        mt \in {None, Some(VString("Result"))}, n \in NumberEntries}
    \cup NonDictionaries

\* arguments of Command::connect
ConnectPorts == {0, 1, 255, 256, 257, 2345, 10505, 65535}
ConnectDeviceIds == {0, 3, 70000}

\* payload lengths Packet::new is called with: 0, 2, 2^32 - 17, 2^32 - 16,
\* 2^32 - 2, 2^32 - 1, 2^32, 2^32 + 5
PayloadLens ==
    {UsizeFromNat(0), UsizeFromNat(2), Usize(0, 65535, 65519), Usize(0, 65535, 65520),
     Usize(0, 65535, 65534), Usize(0, 65535, 65535), Usize(1, 0, 0), Usize(1, 0, 5)}

\* packets and writers Packet::write_into is called with: fail_at is the write of
\* the five that the writer refuses, 0 for a writer that takes them all
WrittenPackets ==
    {PacketNew(protocol, packet_type, U32FromNat(0), payload, FALSE).packet :
        protocol \in Protocols, packet_type \in {"Result", "PlistPayload"},
        payload \in Payloads}
FailingWrites == 0..5

\* byte payloads DeviceEvent::from_vec is called with: no bytes, bytes that are no
\* plist, and the documents of PlistValueFromReader
FromVecPayloads == {<<>>, <<0, 0>>} \cup {<<kind, 1>> : kind \in 1..8}

\* the calls
FnInputs ==
    {[fn |-> "DeviceEvent::try_from", value |-> v] : v \in DeviceEventValues}
    \cup {[fn |-> "DeviceAttachedInfo::try_from", value |-> v] : v \in AttachedInfoValues}
    \cup {[fn |-> "ResultMessage::try_from", value |-> v] : v \in ResultMessageValues}
    \cup {[fn |-> "Command::connect", port |-> port, device_id |-> id] :
             port \in ConnectPorts, id \in ConnectDeviceIds}
    \cup {[fn |-> "Packet::new", protocol |-> protocol, packet_type |-> packet_type,
           payload_len |-> len] :
             protocol \in Protocols, packet_type \in {"Result", "PlistPayload"},
             len \in PayloadLens}
    \cup {[fn |-> "Packet::write_into", packet |-> p, fail_at |-> k] :
             p \in WrittenPackets, k \in FailingWrites}
    \cup {[fn |-> "DeviceEvent::from_vec", data |-> data] : data \in FromVecPayloads}

FnInit ==
    /\ cpc = "off" /\ packet = NoPacket /\ stream = <<>> /\ pos = 0 /\ result = NoResult
    /\ overflow_checks \in BOOLEAN
    /\ sock_in = <<>> /\ sock_out = <<>> /\ peer_closed = FALSE /\ frames_sent = 0
    /\ lpc = "off" /\ listen_result = NoResult /\ printed = <<>> /\ lib_panic = NoPanic
    /\ PollOff
    /\ ConnOff
    /\ big_endian \in BOOLEAN
    /\ fpc = "called"
    /\ input \in FnInputs
    /\ outcome = NoResult
    /\ StreamOff

\* what every call leaves alone
FnFrame ==
    UNCHANGED <<input, overflow_checks, big_endian, codecVars, sockVars, libVars, pollVars,
                connVars, streamVars>>

\* DeviceEvent::try_from(&value)
FnDeviceEvent ==
    /\ fpc = "called"
    /\ input.fn = "DeviceEvent::try_from"
    /\ outcome' = DeviceEventTryFrom(input.value)
    /\ fpc' = "done"
    /\ FnFrame

\* DeviceAttachedInfo::try_from(&value)
FnAttachedInfo ==
    /\ fpc = "called"
    /\ input.fn = "DeviceAttachedInfo::try_from"
    /\ outcome' = DeviceAttachedInfoTryFrom(input.value)
    /\ fpc' = "done"
    /\ FnFrame

\* ResultMessage::try_from(&value)
FnResultMessage ==
    /\ fpc = "called"
    /\ input.fn = "ResultMessage::try_from"
    /\ outcome' = ResultMessageTryFrom(input.value)
    /\ fpc' = "done"
    /\ FnFrame

\* Command::connect(port, device_id)
FnCommandConnect ==
    /\ fpc = "called"
    /\ input.fn = "Command::connect"
    /\ outcome' = Ok(CommandConnect(input.port, input.device_id, big_endian))
    /\ fpc' = "done"
    /\ FnFrame

\* Packet::new(protocol, packet_type, 0, payload), the payload known by its length
FnPacketNew ==
    /\ fpc = "called"
    /\ input.fn = "Packet::new"
    /\ outcome' = PacketNewOfLen(input.protocol, input.packet_type, U32FromNat(0),
                                 [len |-> input.payload_len], input.payload_len,
                                 overflow_checks)
    /\ fpc' = "done"
    /\ FnFrame

\* packet.write_into(&mut writer)
FnWriteInto ==
    /\ fpc = "called"
    /\ input.fn = "Packet::write_into"
    /\ outcome' = WriteIntoFailingAt(input.packet, input.fail_at)
    /\ fpc' = "done"
    /\ FnFrame

\* DeviceEvent::from_vec(data)
FnFromVec ==
    /\ fpc = "called"
    /\ input.fn = "DeviceEvent::from_vec"
    /\ outcome' = DeviceEventFromVec(input.data)
    /\ fpc' = "done"
    /\ FnFrame

FnNext ==
    \/ FnDeviceEvent
    \/ FnAttachedInfo
    \/ FnResultMessage
    \/ FnCommandConnect
    \/ FnPacketNew
    \/ FnWriteInto
    \/ FnFromVec

SpecFn == FnInit /\ [][FnNext]_vars

(***************************************************************************)
(* A stream of packets: up to MaxStreamPackets packets are built and       *)
(* written to the stream one after the other by write_into; then the       *)
(* stream is read by from_reader, call after call, until a call fails.     *)
(***************************************************************************)
\* payloads of the packets of a stream: each byte tells its place
StreamPayloads == {[i \in 1..n |-> 200 + i] : n \in 0..MaxPayload}

StreamInit ==
    /\ cpc = "off" /\ packet = NoPacket /\ stream = <<>> /\ pos = 0 /\ result = NoResult
    /\ overflow_checks \in BOOLEAN
    /\ sock_in = <<>> /\ sock_out = <<>> /\ peer_closed = FALSE /\ frames_sent = 0
    /\ lpc = "off" /\ listen_result = NoResult /\ printed = <<>> /\ lib_panic = NoPanic
    /\ PollOff
    /\ ConnOff
    /\ big_endian = FALSE
    /\ FnOff
    /\ spc = "writing"
    /\ wrote = <<>>
    /\ got = <<>>

\* Packet::new(protocol, packet_type, 258, payload).write_into(&mut stream)
StreamWrite ==
    /\ spc = "writing"
    /\ Len(wrote) < MaxStreamPackets
    /\ \E protocol \in Protocols, packet_type \in {"Result", "PlistPayload"},
          payload \in StreamPayloads :
          LET made == PacketNew(protocol, packet_type, U32FromNat(258), payload,
                                overflow_checks)
          IN  /\ made.res = "Ok"
              /\ stream' = stream \o WriteInto(made.packet)
              /\ wrote' = Append(wrote, made.packet)
    /\ UNCHANGED <<spc, got, cpc, packet, pos, result, overflow_checks, sockVars, libVars,
                   pollVars, connVars, big_endian, fnVars>>

\* the writer is done; the reader starts at the front of the stream
StreamRewind ==
    /\ spc = "writing"
    /\ spc' = "reading"
    /\ UNCHANGED <<wrote, got, codecVars, overflow_checks, sockVars, libVars, pollVars,
                   connVars, big_endian, fnVars>>

\* Packet::from_reader(&mut stream), until a call has failed
StreamRead ==
    /\ spc = "reading"
    /\ IF got = <<>> THEN TRUE ELSE got[Len(got)].res = "Ok"
    /\ \E x \in {FromReader(Drop(stream, pos), overflow_checks)} :
          /\ got' = Append(got, IF x.res = "Ok" THEN Returned(x.packet)
                                ELSE [res |-> x.res])
          /\ pos' = Len(stream) - Len(x.rest)
    /\ UNCHANGED <<spc, wrote, cpc, packet, stream, result, overflow_checks, sockVars,
                   libVars, pollVars, connVars, big_endian, fnVars>>

StreamNext == StreamWrite \/ StreamRewind \/ StreamRead

SpecStream == StreamInit /\ [][StreamNext]_vars

(***************************************************************************)
(* Claims about the packet codec.                                          *)
(***************************************************************************)
\* the k-th little-endian word (k = 0..3) of the header on the stream
HeaderWord(k) == ReadU32LE(SubSeq(stream, 4 * k + 1, 4 * k + 4))

\* the harness has read back a packet that it built and wrote itself
ReadBack == cpc = "read" /\ packet # NoPacket

\* the harness has read a stream that a peer filled, with a whole header on it
ReadInjected == cpc = "read" /\ packet = NoPacket /\ Len(stream) >= 16

\* C1: a packet built by Packet::new, written by write_into and read back by
\* from_reader comes back with the same size, protocol, packet_type, tag and payload.
C1_RoundTrip ==
    ReadBack =>
        /\ result.res = "Ok"
        /\ result.packet.size = packet.size
        /\ result.packet.protocol = packet.protocol
        /\ result.packet.packet_type = packet.packet_type
        /\ result.packet.tag = packet.tag
        /\ result.packet.data = packet.data

\* C1 witness: a Plist packet with the longest payload and the largest tag was read back.
C1_Witness ==
    /\ ReadBack
    /\ packet.protocol = "Plist"
    /\ packet.tag = U32Max
    /\ Len(packet.data) = MaxPayload
    /\ result.res = "Ok"

\* C2: from_reader on a header whose total_size is below 16, with a valid protocol
\* and packet_type, returns an error, and computes no wrapped payload_size.
C2_SizeBelowHeaderFails ==
    ( /\ ReadInjected
      /\ U32Less(HeaderWord(0), BASE_PACKET_SIZE)
      /\ ProtocolTryFrom(HeaderWord(1)).ok
      /\ PacketTypeTryFrom(HeaderWord(2)).ok )
    => (result.res = "Err" /\ ~result.wrapped)

\* C3: from_reader on a header whose protocol word v is unknown fails with
\* InvalidProtocol(v); with a known protocol and an unknown packet_type word t it
\* fails with InvalidPacketType(t); the error carries the raw word.
C3_UnknownEnumerators ==
    ReadInjected =>
        /\ HeaderWord(1) \notin {U32FromNat(0), U32FromNat(1)}
             => (result.res = "Err" /\ result.err = InvalidProtocol(HeaderWord(1)))
        /\ ( /\ HeaderWord(1) \in {U32FromNat(0), U32FromNat(1)}
             /\ HeaderWord(2) \notin {U32FromNat(n) : n \in {1, 2, 3, 4, 5, 8}} )
             => (result.res = "Err" /\ result.err = InvalidPacketType(HeaderWord(2)))

\* C3 witness: a header with a known protocol, the word 65537 as packet_type and a
\* total_size of 0 was read, and the read failed.
C3_Witness ==
    /\ ReadInjected
    /\ HeaderWord(0) = U32FromNat(0)
    /\ HeaderWord(1) = U32FromNat(1)
    /\ HeaderWord(2) = U32(1, 1)
    /\ result.res = "Err"

\* the from_reader calls on the stream that returned a packet
PacketsRead == Len(SelectSeq(got, LAMBDA g : g.res = "Ok"))

\* the bytes that the first n packets written take on the stream: 16 header bytes
\* and the payload, each
BytesOfFirst(n) ==
    LET Sum[i \in 0..n] == IF i = 0 THEN 0 ELSE Sum[i - 1] + 16 + Len(wrote[i].data)
    IN  Sum[n]

\* C27: a successful from_reader consumes exactly total_size bytes of the stream,
\* 16 header bytes and the payload (16 bytes alone when total_size = 16): the
\* calls on a stream of k written packets return these k packets, in the order
\* written, the reader standing behind the last byte of the last packet returned;
\* no byte is skipped or read twice.
C27_ReadsWholePackets ==
    spc = "reading" =>
        /\ PacketsRead <= Len(wrote)
        /\ \A i \in 1..PacketsRead : got[i] = Returned(wrote[i])
        /\ Len(got) > PacketsRead => (PacketsRead = Len(wrote) /\ pos = Len(stream))
        /\ Len(got) = PacketsRead => pos = BytesOfFirst(PacketsRead)

\* C27 witness: three packets were written, the second without a payload and the
\* others with the longest one, and three calls returned them.
C27_Witness ==
    /\ spc = "reading"
    /\ Len(wrote) >= 3
    /\ Len(wrote[1].data) = MaxPayload
    /\ wrote[2].data = <<>>
    /\ Len(wrote[3].data) = MaxPayload
    /\ wrote[1].protocol # wrote[3].protocol
    /\ Len(got) = 3
    /\ PacketsRead = 3

(***************************************************************************)
(* Claims about the plist decoders, Command::connect and Packet::new.      *)
(***************************************************************************)
\* the call of f has been made
Called(f) == fpc = "done" /\ input.fn = f

\* what a dictionary holds under a key
Holds(d, key) == key \in DOMAIN d
HoldsString(d, key) == Holds(d, key) /\ d[key].k = "String"
HoldsUnsigned(d, key) == Holds(d, key) /\ d[key].k = "Integer" /\ d[key].i >= 0

\* DeviceEvent::try_from was called on a dictionary whose MessageType is the string s
EventCalledWith(s) ==
    /\ Called("DeviceEvent::try_from")
    /\ input.value.k = "Dictionary"
    /\ Holds(input.value.d, "MessageType")
    /\ input.value.d["MessageType"] = VString(s)

\* C11: for a dictionary with MessageType "Detached" (resp. "Paired") and an
\* unsigned-integer top-level DeviceID d, DeviceEvent::try_from returns
\* Detached(d) (resp. Paired(d)).
C11_DetachedPairedCarryDeviceId ==
    \A s \in {"Detached", "Paired"} :
        (EventCalledWith(s) /\ HoldsUnsigned(input.value.d, "DeviceID"))
            => outcome = [res |-> "Ok",
                          val |-> [ev |-> s, id |-> input.value.d["DeviceID"].i]]

\* C11 witness: a Paired message with DeviceID 0 and a Properties entry was decoded
\* to Paired(0).
C11_Witness ==
    /\ EventCalledWith("Paired")
    /\ Holds(input.value.d, "Properties")
    /\ HoldsUnsigned(input.value.d, "DeviceID")
    /\ input.value.d["DeviceID"] = VInteger(0)
    /\ outcome = Ok(Paired(0))

\* a Properties dictionary with all five entries of the right type
PropertiesWellFormed(p) ==
    /\ p.k = "Dictionary"
    /\ HoldsString(p.d, "ConnectionType")
    /\ HoldsUnsigned(p.d, "DeviceID")
    /\ HoldsUnsigned(p.d, "LocationID")
    /\ HoldsUnsigned(p.d, "ProductID")
    /\ HoldsString(p.d, "SerialNumber")

\* the classification of a product id: 0x12A8, 0x12AA, 0x12AB, or unknown
ProductClass(n) ==
    CASE n = 4776 -> [t |-> "IPhone", id |-> 0]
      [] n = 4778 -> [t |-> "IPodTouch", id |-> 0]
      [] n = 4779 -> [t |-> "IPad", id |-> 0]
      [] OTHER    -> [t |-> "Unknown", id |-> n]

\* the Attached event with the fields of the Properties dictionary p, its product
\* id taken as product_id
AttachedFrom(p, product_id) ==
    [res |-> "Ok",
     val |-> [ev |-> "Attached",
              info |-> [connection_type |->
                            IF p.d["ConnectionType"].s = "USB" THEN [t |-> "USB", s |-> ""]
                            ELSE [t |-> "Unknown", s |-> p.d["ConnectionType"].s],
                        device_id |-> p.d["DeviceID"].i,
                        location_id |-> p.d["LocationID"].i,
                        product_type |-> ProductClass(product_id),
                        identifier |-> p.d["SerialNumber"].s]]]

\* DeviceEvent::try_from was called on an Attached message with an unsigned
\* top-level DeviceID and well-formed Properties
AttachedCalled ==
    /\ EventCalledWith("Attached")
    /\ HoldsUnsigned(input.value.d, "DeviceID")
    /\ Holds(input.value.d, "Properties")
    /\ PropertiesWellFormed(input.value.d["Properties"])

\* C12: an Attached message with an unsigned top-level DeviceID and
\* well-formed Properties decodes to Attached(info), info taking connection_type,
\* device_id, location_id and identifier from Properties and product_type being
\* the classification of Properties.ProductID.
C12_AttachedInfoFields ==
    AttachedCalled =>
        outcome = AttachedFrom(input.value.d["Properties"],
                               input.value.d["Properties"].d["ProductID"].i)

\* C12, for product ids of 16 bits: the same, product_type being the classification
\* of the low 16 bits of Properties.ProductID.
C12_AttachedInfoFieldsLow16 ==
    AttachedCalled =>
        outcome = AttachedFrom(input.value.d["Properties"],
                               input.value.d["Properties"].d["ProductID"].i % 65536)

\* C12 witness: an Attached message with top-level DeviceID 3 and Properties with
\* DeviceID 4, ConnectionType "Network" and ProductID 70315 was decoded to an
\* Attached event with device_id 4, Unknown("Network") and IPad.
C12_Witness ==
    /\ AttachedCalled
    /\ input.value.d["DeviceID"] = VInteger(3)
    /\ input.value.d["Properties"].d["ProductID"] = VInteger(70315)
    /\ outcome.res = "Ok"
    /\ outcome.val.info.device_id = 4
    /\ outcome.val.info.connection_type = [t |-> "Unknown", s |-> "Network"]
    /\ outcome.val.info.product_type.t = "IPad"

\* the two bytes of a 16-bit value, exchanged
ByteSwapped(p) == (p % 256) * 256 + (p \div 256)

\* the PortNumber and DeviceID of the Connect command, as encoded
EncodedConnect == PlistValueFromReader(CommandToBytes(outcome.val)).v.d

\* C13 as stated: Command::connect(p, d) stores as PortNumber the byte-swapped
\* value of p, not p itself, and stores d unchanged as DeviceID; the encoded
\* command carries these values.
C13_ConnectPortByteSwapped ==
    Called("Command::connect") =>
        /\ outcome.val.port_number = ByteSwapped(input.port)
        /\ outcome.val.device_id = input.device_id
        /\ EncodedConnect["PortNumber"] = VInteger(ByteSwapped(input.port))
        /\ EncodedConnect["DeviceID"] = VInteger(input.device_id)

\* C13 amended: on a little-endian target Command::connect(p, d) stores as
\* PortNumber the byte-swapped value of p; on a big-endian target it stores p; on
\* both it stores d unchanged as DeviceID; the encoded command carries these values.
C13_ConnectPortToBe ==
    Called("Command::connect") =>
        LET stored == IF big_endian THEN input.port ELSE ByteSwapped(input.port)
        IN  /\ outcome.val.port_number = stored
            /\ outcome.val.device_id = input.device_id
            /\ EncodedConnect["PortNumber"] = VInteger(stored)
            /\ EncodedConnect["DeviceID"] = VInteger(input.device_id)

\* C13 witness: on a little-endian target Command::connect(2345, 70000) stored
\* PortNumber 10505 and DeviceID 70000.
C13_Witness ==
    /\ Called("Command::connect")
    /\ ~big_endian
    /\ input.port = 2345
    /\ input.device_id = 70000
    /\ outcome.val.port_number = 10505
    /\ outcome.val.device_id = 70000

\* C14: ResultMessage::try_from of a dictionary with an integer entry Number = n
\* returns ResultMessage(n); of a dictionary where Number is absent or no integer,
\* InvalidPlistEntryForKey; of a value that is no dictionary, InvalidPlistEntry.
C14_ResultMessageDecoding ==
    Called("ResultMessage::try_from") =>
        IF input.value.k # "Dictionary"
        THEN outcome = [res |-> "Err", err |-> InvalidPlistEntry]
        ELSE IF Holds(input.value.d, "Number") /\ input.value.d["Number"].k = "Integer"
        THEN outcome = [res |-> "Ok", val |-> [number |-> input.value.d["Number"].i]]
        ELSE outcome.res = "Err" /\ outcome.err.e = "InvalidPlistEntryForKey"

\* C14 witness: a dictionary with Number = -1 and no MessageType was decoded to
\* ResultMessage(-1).
C14_Witness ==
    /\ Called("ResultMessage::try_from")
    /\ input.value.k = "Dictionary"
    /\ ~Holds(input.value.d, "MessageType")
    /\ Holds(input.value.d, "Number")
    /\ input.value.d["Number"] = VInteger(0 - 1)
    /\ outcome = Ok(ResultMessage(0 - 1))

\* C16: a message with MessageType "Result", with or without a DeviceID, is never
\* turned into a device event: DeviceEvent::try_from returns an error.
C16_ResultIsNoDeviceEvent ==
    EventCalledWith("Result") => outcome.res = "Err"

\* C16 witness: a Result message with DeviceID 3 was refused with
\* InvalidMessageType("Result").
C16_Witness ==
    /\ EventCalledWith("Result")
    /\ HoldsUnsigned(input.value.d, "DeviceID")
    /\ input.value.d["DeviceID"] = VInteger(3)
    /\ outcome = Failed(InvalidMessageType("Result"))

\* the strings MessageType may be
KnownMessageTypes == {"Attached", "Detached", "Paired", "Result"}

\* C17: DeviceEvent::try_from returns the first failure in this order: a root that
\* is no dictionary gives InvalidPlistEntry; a MessageType that is another string,
\* or no string, gives InvalidMessageType; a missing or non-unsigned top-level
\* DeviceID gives InvalidPlistEntryForKey("DeviceID"), for every message type.
C17_ValidationOrder ==
    Called("DeviceEvent::try_from") =>
        IF input.value.k # "Dictionary"
        THEN outcome = [res |-> "Err", err |-> InvalidPlistEntry]
        ELSE Holds(input.value.d, "MessageType") =>
            IF ~( /\ input.value.d["MessageType"].k = "String"
                  /\ input.value.d["MessageType"].s \in KnownMessageTypes )
            THEN outcome.res = "Err" /\ outcome.err.e = "InvalidMessageType"
            ELSE ~HoldsUnsigned(input.value.d, "DeviceID") =>
                     outcome = [res |-> "Err", err |-> InvalidPlistEntryForKey("DeviceID")]

\* C17 witness: an Attached message with no DeviceID and Properties that do not
\* decode was refused with InvalidPlistEntryForKey("DeviceID").
C17_Witness ==
    /\ EventCalledWith("Attached")
    /\ ~Holds(input.value.d, "DeviceID")
    /\ Holds(input.value.d, "Properties")
    /\ ~PropertiesWellFormed(input.value.d["Properties"])
    /\ outcome = Failed(InvalidPlistEntryForKey("DeviceID"))

\* the first of the five entries of a Properties dictionary that is missing or of
\* the wrong type, or "" if there is none
FirstBadProperty(d) ==
    IF ~HoldsString(d, "ConnectionType") THEN "ConnectionType"
    ELSE IF ~HoldsUnsigned(d, "DeviceID") THEN "DeviceID"
    ELSE IF ~HoldsUnsigned(d, "LocationID") THEN "LocationID"
    ELSE IF ~HoldsUnsigned(d, "ProductID") THEN "ProductID"
    ELSE IF ~HoldsString(d, "SerialNumber") THEN "SerialNumber"
    ELSE ""

\* C18: DeviceAttachedInfo::try_from of a dictionary in which one of ConnectionType,
\* DeviceID, LocationID, ProductID, SerialNumber is missing or of the wrong type
\* fails with InvalidPlistEntryForKey(name), name the first such entry in this
\* order; of a value that is no dictionary it fails with InvalidPlistEntry.
C18_AttachedInfoErrors ==
    Called("DeviceAttachedInfo::try_from") =>
        IF input.value.k # "Dictionary"
        THEN outcome = [res |-> "Err", err |-> InvalidPlistEntry]
        ELSE FirstBadProperty(input.value.d) # "" =>
                 outcome = [res |-> "Err",
                            err |-> InvalidPlistEntryForKey(FirstBadProperty(input.value.d))]

\* C18 witness: Properties whose ProductID is a string and whose SerialNumber is an
\* integer, the rest well-formed, were refused with
\* InvalidPlistEntryForKey("ProductID").
C18_Witness ==
    /\ Called("DeviceAttachedInfo::try_from")
    /\ input.value.k = "Dictionary"
    /\ FirstBadProperty(input.value.d) = "ProductID"
    /\ Holds(input.value.d, "ProductID")
    /\ Holds(input.value.d, "SerialNumber")
    /\ ~HoldsString(input.value.d, "SerialNumber")
    /\ outcome = Failed(InvalidPlistEntryForKey("ProductID"))

\* C19: an Attached message whose Properties entry is absent, is no dictionary, or
\* does not decode makes DeviceEvent::try_from return an error, and no Attached
\* event.
C19_BadPropertiesFailAttached ==
    ( /\ EventCalledWith("Attached")
      /\ \/ ~Holds(input.value.d, "Properties")
         \/ ~PropertiesWellFormed(input.value.d["Properties"]) )
    => outcome.res = "Err"

\* C19 witness: an Attached message with DeviceID 3 and Properties whose
\* SerialNumber is an integer was refused with InvalidPlistEntryForKey("Properties").
C19_Witness ==
    /\ EventCalledWith("Attached")
    /\ HoldsUnsigned(input.value.d, "DeviceID")
    /\ Holds(input.value.d, "Properties")
    /\ input.value.d["Properties"].k = "Dictionary"
    /\ FirstBadProperty(input.value.d["Properties"].d) = "SerialNumber"
    /\ outcome = Failed(InvalidPlistEntryForKey("Properties"))

\* Packet::new accepts the payload length of the call
LenAccepted == input.payload_len.top = 0 /\ input.payload_len # Usize(0, 65535, 65535)

\* C20: for every payload Packet::new accepts (length < u32::MAX) the packet has
\* size = 16 + len(payload) exactly, the sum not overflowing 32 bits; a payload of
\* length >= u32::MAX is rejected by the assertion.
C20_SizeIsExact ==
    Called("Packet::new") =>
        IF LenAccepted
        THEN /\ outcome.res = "Ok"
             /\ outcome.packet.size.lo = (input.payload_len.lo + 16) % 65536
             /\ outcome.packet.size.hi =
                    input.payload_len.hi + ((input.payload_len.lo + 16) \div 65536)
             /\ outcome.packet.size.hi < 65536
        ELSE outcome = [res |-> "Panic", msg |-> "Payload too large"]

\* C25: the product_type of an Attached event is a lookup on the ProductID of its
\* Properties: IPhone iff ProductID = 0x12A8, IPodTouch iff 0x12AA, IPad iff
\* 0x12AB, and Unknown(ProductID) for every other value, those above 65535
\* included.
C25_ProductClassification ==
    (AttachedCalled /\ outcome.res = "Ok") =>
        LET product_id == input.value.d["Properties"].d["ProductID"].i
            product_type == outcome.val.info.product_type
        IN  /\ product_type.t = "IPhone" <=> product_id = 4776
            /\ product_type.t = "IPodTouch" <=> product_id = 4778
            /\ product_type.t = "IPad" <=> product_id = 4779
            /\ product_id \notin {4776, 4778, 4779} =>
                   product_type = [t |-> "Unknown", id |-> product_id]

\* C26: device-event decoding is total.  For every plist value, a dictionary
\* without a MessageType entry included, DeviceEvent::try_from returns an event or
\* a ProtocolError; for every byte payload, bytes that are no plist included,
\* DeviceEvent::from_vec does; no input makes the decoder panic.
C26_DecodingIsTotal ==
    (Called("DeviceEvent::try_from") \/ Called("DeviceEvent::from_vec")) =>
        outcome.res \in {"Ok", "Err"}

\* C21: when one of the five writes of write_into fails (the four header words,
\* the payload), write_into returns an I/O error to its caller: it neither
\* succeeds nor panics.
C21_WriteFailureIsError ==
    (Called("Packet::write_into") /\ input.fail_at # 0) =>
        (outcome.res = "Err" /\ outcome.err.e = "IoError")

(***************************************************************************)
(* Claims about DeviceListener construction and its loop (lib.rs).         *)
(***************************************************************************)
\* the reply to Listen decoded to a ResultMessage
ListenReplied == listen_result.res = "Ok"

\* C4: if the reply to Listen carries a non-zero code, construction fails and the
\* listener never goes on to read device-event packets.
C4_NonZeroResultFailsConstruction ==
    (ListenReplied /\ listen_result.val.number # 0)
        => (lpc # "loop" /\ printed = <<>>)

(***************************************************************************)
(* Claims about the device connector.                                      *)
(***************************************************************************)
\* the call has ended, one way or another
ConnectEnded == kpc \in {"returned", "failed", "panicked"}

\* the Connect command on the wire, decoded again
SentCommand == PlistValueFromReader(FromReader(sock_out, overflow_checks).packet.data)

C6_ConstructionReturns ==
    (ListenReplied /\ listen_result.val.number = 0) ~> (lpc = "returned")

\* C10: while listening, a frame that fails to decode is not fatal to the listener.
C10_DecodeErrorNotFatal ==
    ~(lpc = "panicked" /\ lib_panic.at = "loop" /\ lib_panic.why = "decode")

\* C15: when the initial connection to the service fails, DeviceListener::new
\* hands an error to its caller and does not crash, and sends no Listen command.
C15_ConnectFailureIsError ==
    /\ ~(lpc = "panicked" /\ lib_panic.at = "connect")
    /\ lib_panic.at = "connect" => sock_out = <<>>

\* C22: Packet::from_reader returns no partial frame.  When the reader ends
\* before the 16 header bytes, or before the total_size - 16 payload bytes, the
\* call ends with an I/O error value: the listener's read of a frame that the
\* closed connection cut short does not panic.
C22_NoPartialFrame ==
    ~(lpc = "panicked" /\ lib_panic.at \in {"await_result", "loop"} /\ lib_panic.why = "io")

\* C22 for from_reader of protocol.rs, on a stream that holds a whole header with
\* a known protocol and packet_type and a total_size of 16 or more: a payload
\* shorter than total_size - 16 gives an I/O error, and a returned packet holds
\* exactly total_size - 16 payload bytes.
C22_NoPartialFrameProtocol ==
    ( /\ ReadInjected
      /\ ~U32Less(HeaderWord(0), BASE_PACKET_SIZE)
      /\ ProtocolTryFrom(HeaderWord(1)).ok
      /\ PacketTypeTryFrom(HeaderWord(2)).ok )
    => LET want == U32WrappingSub(HeaderWord(0), BASE_PACKET_SIZE)
           have == Len(stream) - 16
       IN  IF want.hi # 0 \/ want.lo > have
           THEN result.res = "Err" /\ result.err = IoError("UnexpectedEof")
           ELSE /\ result.res = "Ok"
                /\ Len(result.packet.data) = want.lo
                /\ result.packet.size = HeaderWord(0)

\* the bytes of a Plist / PlistPayload packet with tag 0 around a Listen command:
\* the words total_size = 18, protocol = 1, packet_type = 8, tag = 0, little-endian,
\* and the command's plist document
ListenPacketBytes ==
    <<18, 0, 0, 0,  1, 0, 0, 0,  8, 0, 0, 0,  0, 0, 0, 0>>
        \o PlistToWriterXml(LibCommandNew("Listen"))

\* the payload of the first frame waiting on the socket
FirstFramePayload ==
    SubSeq(sock_in, 17, ReadU32LE(SubSeq(sock_in, 1, 4)).lo)

\* what has been written to the transport at each position of the construction
ListenWrittenOnce ==
    /\ lpc = "new" => sock_out = <<>>
    /\ lpc \in {"await_result", "loop"} => sock_out = ListenPacketBytes
    /\ lpc = "panicked" =>
           sock_out = IF lib_panic.at \in {"connect", "send_payload"} THEN <<>>
                      ELSE ListenPacketBytes
    /\ PlistValueFromReader(Drop(ListenPacketBytes, 16)).v.d["MessageType"]
           = VString("Listen")

\* one step of the construction: a write is the first thing done on the transport
\* and writes the Listen packet; a read comes after it; the packet read while the
\* reply is awaited is the one decoded as the ResultMessage
ListenStep ==
    /\ sock_out' # sock_out =>
           /\ lpc = "new" /\ sock_out = <<>> /\ sock_in = <<>> /\ frames_sent = 0
           /\ sock_out' = ListenPacketBytes
    /\ Len(sock_in') < Len(sock_in) => sock_out = ListenPacketBytes
    /\ listen_result' # listen_result =>
           /\ lpc = "await_result" /\ listen_result = NoResult
           /\ listen_result' = ResultMessageFromReader(FirstFramePayload)
    /\ (lpc = "await_result" /\ lpc' = "loop") => listen_result' # NoResult

SockHeaderWord(k) == ReadU32LE(SubSeq(sock_in, 4 * k + 1, 4 * k + 4))

\* a whole frame waits at the front of the socket, its total_size 16 or more and
\* its packet_type known, and its protocol word is w
WholeFrameOfProtocol(w) ==
    /\ Len(sock_in) >= 16
    /\ SockHeaderWord(1) = U32FromNat(w)
    /\ PacketTypeTryFrom(SockHeaderWord(2)).ok
    /\ SockHeaderWord(0).hi = 0
    /\ SockHeaderWord(0).lo >= 16
    /\ Len(sock_in) >= SockHeaderWord(0).lo

\* one turn of the loop, as seen from outside: the loop was running and a frame
\* left the socket or a line was printed
LoopTurn == lpc = "loop" /\ (Len(sock_in') < Len(sock_in) \/ printed' # printed)

\* a turn on a Binary frame prints the ignore line, leaves the listener in its
\* loop and the frames behind it on the socket; a device event is decoded and
\* printed only on a turn on a Plist frame
BinaryIgnored ==
    /\ (LoopTurn /\ WholeFrameOfProtocol(0)) =>
           /\ printed' = Append(printed, Ignored)
           /\ lpc' = "loop"
           /\ sock_in' = Drop(sock_in, SockHeaderWord(0).lo)
    /\ (printed' # printed /\ printed'[Len(printed')] # Ignored) =>
           /\ LoopTurn
           /\ WholeFrameOfProtocol(1)
           /\ printed' = Append(printed, DeviceEventFromVec(
                             SubSeq(sock_in, 17, SockHeaderWord(0).lo)))

\* C24: in the loop of the listener only a packet of the Plist protocol is decoded
\* as a device event; a packet of the Binary protocol yields no device event, and
\* the listener goes on with the packets that follow it.
C24_OnlyPlistDecoded == [][BinaryIgnored]_vars

\* C24 witness: a Binary frame was ignored and the Plist frame behind it was
\* decoded to a device event.
C24_Witness ==
    /\ lpc = "loop"
    /\ Len(printed) = 2
    /\ printed[1] = Ignored
    /\ printed[2].res = "Ok"

(***************************************************************************)
(* Claims about next_event.                                                *)
(***************************************************************************)
IsPrefix(a, b) == Len(a) <= Len(b) /\ a = Take(b, Len(a))

\* C7: when a next_event call ends with nothing read or carried over and nothing
\* queued, it returns None and leaves the queue empty, and it hands out no event.
C7_IdleReturnsNone ==
    [][(npc = "drain" /\ npc' = "idle" /\ buf = <<>> /\ events = <<>>)
          => (last_event' = None /\ events' = <<>> /\ delivered' = delivered)]_vars

\* C7 witness: a call on a listener to which nothing was ever sent has returned None.
C7_Witness ==
    /\ npc = "idle"
    /\ attempts = RetryBudget
    /\ frames_sent = 0
    /\ last_event = None
    /\ events = <<>>

\* nothing is left in flight, unread, unparsed or queued
Quiescent == in_flight = <<>> /\ sock_in = <<>> /\ buf = <<>> /\ events = <<>>

C9_NextEventTerminates ==
    /\ [](attempts <= RetryBudget)
    /\ (npc = "drain") ~> (npc = "idle")

\* C9 witness: a call has used up its attempts while a frame was still in flight,
\* and returned.
C9_Witness ==
    /\ npc = "idle"
    /\ attempts = RetryBudget
    /\ in_flight # <<>>
    /\ buf # <<>>

=============================================================================
